---- MODULE Spec2Model ----
(***************************************************************************)
(* Model of the n8n WhatsApp dashboard server (src/n8n-whatsapp-dashboard.js *)
(* and its earlier single-webhook iteration src/n_8_n_whatsapp_dashboard.js):*)
(* the in-memory chat store, the SSE fanout, the ingestion webhooks, the     *)
(* settings routes and the three relaying agent actions.                     *)
(*                                                                           *)
(* Node runs every handler to its first await without interleaving, so one   *)
(* action is one synchronous handler run (middleware included); the part of  *)
(* /send, /action and /stop after `await fetch(...)` is the action Settle.   *)
(*                                                                           *)
(* req and resp record the request being answered and its response; Forget   *)
(* is the server going back to waiting for the next event.  budget is the    *)
(* number of state-changing steps a behaviour may still take.                *)
(*                                                                           *)
(* Text is a sequence of one-character strings, so that String(), trim() and *)
(* the regular expression of normalizePhone are computed, not assumed.       *)
(***************************************************************************)
EXTENDS Integers, Sequences, FiniteSets, TLC

(* ------------------------------ bounds --------------------------------- *)
\* state-changing steps in one behaviour of Spec (every route, few inputs)
MaxSteps == 3
\* ... of SpecFanout (viewers and appends interleaved)
MaxStepsFanout == 5
\* ... of SpecIngest (the three webhooks, many inputs)
MaxStepsIngest == 2
\* ... of SpecAuth (every route, every way to send a token)
MaxStepsAuth == 2

\* ... of SpecNormalize (identifiers of every shape through normalizePhone)
MaxStepsNormalize == 2
\* the longest raw identifier of SpecNormalize
MaxRawLen == 3

\* ... of SpecSettings (the settings routes over every kind of value)
MaxStepsSettings == 2

\* ... of SpecRelay (the relaying routes over every kind of identifier and body)
MaxStepsRelay == 2

(* --------------------------- JavaScript values -------------------------- *)
Undefined == [t |-> "undefined", s |-> <<>>, n |-> 0]
Null == [t |-> "null", s |-> <<>>, n |-> 0]
Str(s) == [t |-> "string", s |-> s, n |-> 0]
Num(n) == [t |-> "number", s |-> <<>>, n |-> n]

\* ToBoolean: undefined, null, '' and 0 are falsy
Truthy(v) ==
    \/ v.t = "string" /\ v.s # <<>>
    \/ v.t = "number" /\ v.n # 0

DigitChars == <<"0", "1", "2", "3", "4", "5", "6", "7", "8", "9">>

RECURSIVE NatToString(_)
NatToString(n) ==
    IF n < 10 THEN <<DigitChars[n + 1]>>
    ELSE NatToString(n \div 10) \o <<DigitChars[(n % 10) + 1]>>

\* String(v)
String(v) ==
    CASE v.t = "string" -> v.s
      [] v.t = "number" -> NatToString(v.n)
      [] v.t = "null" -> <<"n", "u", "l", "l">>
      [] OTHER -> <<"u", "n", "d", "e", "f", "i", "n", "e", "d">>

\* body ?? ''
Coalesce(v, d) == IF v.t \in {"undefined", "null"} THEN d ELSE v

\* the characters String.prototype.trim removes (those the inputs use)
IsSpace(c) == c \in {" ", "\t", "\n"}

RECURSIVE TrimStart(_)
TrimStart(s) ==
    IF s # <<>> /\ IsSpace(Head(s)) THEN TrimStart(Tail(s)) ELSE s

RECURSIVE TrimEnd(_)
TrimEnd(s) ==
    IF s # <<>> /\ IsSpace(s[Len(s)]) THEN TrimEnd(SubSeq(s, 1, Len(s) - 1)) ELSE s

\* a trim that removes nothing
trimNothing(s) == s

\* s.trim()
trim(s) == TrimEnd(TrimStart(s))

(* --------------------------- inputs of the model ------------------------ *)
\* "+1 (555) 000-1111" and the identifier it normalizes to
RawPhoneA ==
    <<"+", "1", " ", "(", "5", "5", "5", ")", " ", "0", "0", "0", "-", "1", "1", "1", "1">>
PhoneA == <<"+", "1", "5", "5", "5", "0", "0", "0", "1", "1", "1", "1">>

PhoneInputs ==
    {Undefined, Null, Str(<<>>), Str(<<" ">>), Str(RawPhoneA), Str(PhoneA), Num(0)}
PhonesFew == {Undefined, Str(<<" ">>), Str(RawPhoneA)}
MessageInputs == {Undefined, Null, Str(<<>>), Str(<<"h", "i">>), Num(7)}
MessagesFew == {Undefined, Str(<<"h", "i">>)}
PhonesOne == {Str(RawPhoneA)}
PhonesTwo == {Str(<<" ">>), Str(RawPhoneA)}
MessagesOne == {Str(<<"h", "i">>)}
\* the direction field of /webhook/message; NoDirection is the field left out
NoDirection == "undefined"
DirectionInputs == {NoDirection, "in", "out", "user", "typo"}
DirectionsFew == {"out", "user"}

\* raw identifiers of every shape: a '+', a digit and a character to strip, in
\* every order, and values that are not text
RawChars == {"+", "1", " "}
RawTexts == UNION {[1..n -> RawChars] : n \in 0..MaxRawLen}
RawIdentifiers == {Str(s) : s \in RawTexts} \cup {Undefined, Null, Num(0), Num(15)}

UrlX == <<"h", "t", "t", "p", "s", ":", "/", "/", "x">>
UrlY == <<"h", "t", "t", "p", "s", ":", "/", "/", "y">>
UrlsFew == {Undefined, Str(<<" ">> \o UrlX), Str(UrlY)}
UrlsOne == {Str(UrlY)}

\* the fields of a settings request: left out, not text, empty, white space
\* only, padded, plain
UrlInputs ==
    {Undefined, Num(7), Str(<<>>), Str(<<" ">>), Str(<<" ">> \o UrlX), Str(UrlX),
     Str(UrlY)}

\* the X-Auth-Token header and the ?token= parameter; NoToken is neither sent
NoToken == ""
Tokens == {NoToken, "tok", "bad"}
\* <<header, query>> of a request
AuthInputs == Tokens \X Tokens
AuthFew == {<<NoToken, NoToken>>, <<"tok", NoToken>>}
AuthOne == {<<"tok", NoToken>>}
\* DASHBOARD_TOKEN when process.env.DASHBOARD_TOKEN is unset or empty
NoSecret == "null"

\* fetch() settles with a 2xx response, another response, or a rejection
RelayOutcomes ==
    { [kind |-> "response", status |-> 200, text |-> <<"o", "k">>],
      [kind |-> "response", status |-> 503, text |-> <<>>],
      [kind |-> "reject", status |-> 0, text |-> <<>>] }

(* -------------------------------- state --------------------------------- *)
VARIABLES
    DASHBOARD_TOKEN,        \* the shared secret, or NoSecret
    MESSAGE_WEBHOOK_URL,    \* text
    ACTION_WEBHOOK_URL,     \* text
    chats,                  \* Map: normalized phone -> sequence of messages
    sseClients,             \* Set of the attached viewers' responses
    received,               \* per connection opened, the events written to it
    broken,                 \* viewers whose res.write throws
    now,                    \* Date.now()
    pending,                \* relay calls issued and not yet settled
    req,                    \* the request being answered, with its inputs
    resp,                   \* the response it was sent (status 0: none yet)
    appendLog,              \* history: every addMessage, in order
    budget                  \* state-changing steps left (a bound of the model)

vars ==
    <<DASHBOARD_TOKEN, MESSAGE_WEBHOOK_URL, ACTION_WEBHOOK_URL, chats, sseClients,
      received, broken, now, pending, req, resp, appendLog, budget>>

config == <<MESSAGE_WEBHOOK_URL, ACTION_WEBHOOK_URL>>
hub == <<sseClients, received, broken>>
store == <<chats, appendLog>>

Viewers == DOMAIN received

\* no relay call has settled for the request
NoOutcome == [kind |-> "none", status |-> 0, text |-> <<>>]

NoReq ==
    [step |-> "idle", route |-> "", header |-> NoToken, query |-> NoToken,
     phone |-> Undefined, message |-> Undefined, direction |-> NoDirection,
     messageWebhookUrl |-> Undefined, actionWebhookUrl |-> Undefined,
     url |-> Undefined, relay |-> NoOutcome]
Request(route, auth) ==
    [NoReq EXCEPT !.step = "request", !.route = route, !.header = auth[1],
                  !.query = auth[2]]
NoResp == [status |-> 0, body |-> [none |-> TRUE]]

\* a server that takes no event while a relay call is in flight
IdleAndNoRelay == req = NoReq /\ pending = <<>>

\* the server is waiting for the next event
Idle == req = NoReq

\* a step that changes the state of the server
Spend == budget > 0 /\ budget' = budget - 1

\* process.env at start: <<SEND_WEBHOOK_URL, ACTION_WEBHOOK_URL>>
EnvUnset == <<<<>>, <<>>>>
EnvSet == <<UrlX, UrlY>>

\* SEND_WEBHOOK_URL=" https://x": the variable is taken as it is
EnvPadded == <<<<" ">> \o UrlX, UrlY>>

InitWith(steps, secrets, envs) ==
    /\ DASHBOARD_TOKEN \in secrets
    /\ \E env \in envs :
           /\ MESSAGE_WEBHOOK_URL = env[1]
           /\ ACTION_WEBHOOK_URL = env[2]
    /\ chats = [k \in {} |-> <<>>]
    /\ sseClients = {}
    /\ received = <<>>
    /\ broken = {}
    /\ now = 0
    /\ pending = <<>>
    /\ req = NoReq
    /\ resp = NoResp
    /\ appendLog = <<>>
    /\ budget = steps

Init == InitWith(MaxSteps, {NoSecret, "tok"}, {EnvUnset, EnvSet})

(* ----------------------------- middleware ------------------------------- *)
\* a requireToken that lets any request carrying some token through
requireTokenAnyToken(auth) ==
    \/ DASHBOARD_TOKEN = NoSecret
    \/ auth[1] # NoToken
    \/ auth[2] # NoToken

\* TRUE: next() is called; FALSE: 401 is sent
requireToken(auth) ==
    \/ DASHBOARD_TOKEN = NoSecret
    \/ LET supplied == IF auth[1] # NoToken THEN auth[1] ELSE auth[2]
       IN  supplied = DASHBOARD_TOKEN

\* res.status(401).send('Unauthorized'): no handler runs, the body is not read
Unauthorized(route, auth) ==
    /\ req' = Request(route, auth)
    /\ resp' = [status |-> 401, body |-> [text |-> "Unauthorized"]]
    /\ UNCHANGED <<DASHBOARD_TOKEN, config, store, hub, now, pending, budget>>

(* ------------------------------- the store ------------------------------ *)
\* the class [\d+] of the regular expression in normalizePhone
IsDigitOrPlus(c) ==
    c \in {"0", "1", "2", "3", "4", "5", "6", "7", "8", "9", "+"}

\* a replace without the g flag: only the first other character is removed
RECURSIVE RemoveFirstOther(_)
RemoveFirstOther(s) ==
    IF s = <<>> THEN <<>>
    ELSE IF ~IsDigitOrPlus(Head(s)) THEN Tail(s)
    ELSE <<Head(s)>> \o RemoveFirstOther(Tail(s))

normalizePhoneFirstOnly(raw) ==
    IF ~Truthy(raw) THEN <<>>
    ELSE RemoveFirstOther(String(raw))

\* a normalizePhone that also removes the '+' (digits only)
normalizePhoneDigitsOnly(raw) ==
    IF ~Truthy(raw) THEN <<>>
    ELSE LET IsDigit(c) == IsDigitOrPlus(c) /\ c # "+"
         IN  SelectSeq(String(raw), IsDigit)

normalizePhone(raw) ==
    IF ~Truthy(raw) THEN <<>>
    ELSE SelectSeq(String(raw), IsDigitOrPlus)

\* a broadcast without the try/catch: the first failing write ends the loop
broadcastNoCatch(event, data) ==
    received' =
        [v \in Viewers |->
            IF v \in sseClients /\ \A w \in sseClients : w <= v => w \notin broken
            THEN Append(received[v], [event |-> event, data |-> data])
            ELSE received[v]]

\* one write to every attached viewer; a write that throws is skipped
broadcast(event, data) ==
    received' =
        [v \in Viewers |->
            IF v \in sseClients /\ v \notin broken
            THEN Append(received[v], [event |-> event, data |-> data])
            ELSE received[v]]

\* chats.set(phone, [msg]): the conversation is replaced, not extended
pushReplace(phone, msg) ==
    [k \in DOMAIN chats \cup {phone} |-> IF k = phone THEN <<msg>> ELSE chats[k]]

\* chats.get(phone).unshift(msg): the message is put first
pushFront(phone, msg) ==
    [k \in DOMAIN chats \cup {phone} |->
        IF k = phone
        THEN <<msg>> \o (IF k \in DOMAIN chats THEN chats[k] ELSE <<>>)
        ELSE chats[k]]

\* if (!chats.has(phone)) chats.set(phone, []); chats.get(phone).push(msg)
push(phone, msg) ==
    [k \in DOMAIN chats \cup {phone} |->
        IF k = phone
        THEN Append(IF k \in DOMAIN chats THEN chats[k] ELSE <<>>, msg)
        ELSE chats[k]]

\* Date.now()
DateNow == now

addMessage(phoneRaw, body, direction) ==
    LET phone == normalizePhone(phoneRaw)
        msg == [body |-> String(Coalesce(body, Str(<<>>))),
                direction |-> direction, ts |-> DateNow]
    IN  /\ chats' = push(phone, msg)
        /\ broadcast("message",
                     [phone |-> phone, body |-> msg.body,
                      direction |-> msg.direction, ts |-> msg.ts])
        /\ appendLog' = Append(appendLog, [via |-> req'.route, phone |-> phone, msg |-> msg])
        /\ UNCHANGED <<sseClients, broken>>

(* ------------------------------ GET /events ----------------------------- *)
\* encodeURIComponent, on the tokens of the model (unreserved characters only)
encodeURIComponent(token) == token

\* a payload whose endpoints carry the shared secret whenever one is configured
buildSettingsPayloadWithSecret(query) ==
    LET tokenQS == IF DASHBOARD_TOKEN # NoSecret
                   THEN <<"?token=", encodeURIComponent(DASHBOARD_TOKEN)>>
                   ELSE <<>>
    IN  [messageWebhookUrl |-> MESSAGE_WEBHOOK_URL,
         actionWebhookUrl |-> ACTION_WEBHOOK_URL,
         incomingEndpoint |-> <<"/webhook/incoming">> \o tokenQS,
         outgoingEndpoint |-> <<"/webhook/outgoing">> \o tokenQS,
         tokenRequired |-> DASHBOARD_TOKEN # NoSecret]

\* the origin (proto://host) is the same for every request of the model
buildSettingsPayload(query) ==
    LET tokenFromQS == IF query # NoToken THEN query ELSE ""
        tokenQS == IF DASHBOARD_TOKEN # NoSecret /\ tokenFromQS # ""
                   THEN <<"?token=", encodeURIComponent(tokenFromQS)>>
                   ELSE <<>>
    IN  [messageWebhookUrl |-> MESSAGE_WEBHOOK_URL,
         actionWebhookUrl |-> ACTION_WEBHOOK_URL,
         incomingEndpoint |-> <<"/webhook/incoming">> \o tokenQS,
         outgoingEndpoint |-> <<"/webhook/outgoing">> \o tokenQS,
         tokenRequired |-> DASHBOARD_TOKEN # NoSecret]

\* a snapshot that leaves the stored messages out
snapshotEmpty == [k \in DOMAIN chats |-> <<>>]

\* Object.fromEntries(chats.entries()), serialized at once by JSON.stringify
snapshot == chats

\* { chats: snapshot, ...settings }
InitData(snap, settings) ==
    [chats |-> snap,
     messageWebhookUrl |-> settings.messageWebhookUrl,
     actionWebhookUrl |-> settings.actionWebhookUrl,
     incomingEndpoint |-> settings.incomingEndpoint,
     outgoingEndpoint |-> settings.outgoingEndpoint,
     tokenRequired |-> settings.tokenRequired]

\* a GET /events that registers the viewer and writes nothing to it
EventsWithoutInit(auth) ==
    /\ Idle
    /\ IF ~requireToken(auth) THEN Unauthorized("/events", auth)
       ELSE /\ Spend
            /\ req' = Request("/events", auth)
            /\ sseClients' = sseClients \cup {Len(received) + 1}
            /\ received' = Append(received, <<>>)
            /\ resp' = [status |-> 200, body |-> [stream |-> Len(received) + 1]]
            /\ UNCHANGED <<DASHBOARD_TOKEN, config, store, broken, now, pending>>

Events(auth) ==
    /\ Idle
    /\ IF ~requireToken(auth) THEN Unauthorized("/events", auth)
       ELSE /\ Spend
            /\ req' = Request("/events", auth)
            /\ sseClients' = sseClients \cup {Len(received) + 1}
            /\ received' =
                   Append(received,
                          <<[event |-> "init",
                             data |-> InitData(snapshot, buildSettingsPayload(auth[2]))]>>)
            /\ resp' = [status |-> 200, body |-> [stream |-> Len(received) + 1]]
            /\ UNCHANGED <<DASHBOARD_TOKEN, config, store, broken, now, pending>>

\* a close listener that empties the viewer set
CloseAll(v) ==
    /\ Idle
    /\ v \in sseClients
    /\ Spend
    /\ sseClients' = {}
    /\ UNCHANGED <<DASHBOARD_TOKEN, config, store, received, broken, now, pending,
                   req, resp>>

\* req.on('close', () => sseClients.delete(res))
Close(v) ==
    /\ Idle
    /\ v \in sseClients
    /\ Spend
    /\ sseClients' = sseClients \ {v}
    /\ UNCHANGED <<DASHBOARD_TOKEN, config, store, received, broken, now, pending,
                   req, resp>>

\* the channel of an attached viewer starts to fail its writes
BreakChannel(v) ==
    /\ Idle
    /\ v \in sseClients \ broken
    /\ Spend
    /\ broken' = broken \cup {v}
    /\ UNCHANGED <<DASHBOARD_TOKEN, config, store, sseClients, received, now, pending,
                   req, resp>>

\* the wall clock advances
Tick ==
    /\ Idle
    /\ Spend
    /\ now' = now + 1
    /\ UNCHANGED <<DASHBOARD_TOKEN, config, store, hub, pending, req, resp>>

\* the response is out; the server waits for the next event
Forget ==
    /\ ~Idle
    /\ req' = NoReq
    /\ resp' = NoResp
    /\ UNCHANGED <<DASHBOARD_TOKEN, config, store, hub, now, pending, budget>>

(* ------------------------------ ingestion ------------------------------- *)
ExpectedPhoneMessage == "Expected JSON: { phone, message }"
ExpectedPhoneMessageDirection == "Expected JSON: { phone, message, direction: 'in'|'out' }"

\* res.status(400).json({ ok: false, error })
BadRequest(error) ==
    /\ resp' = [status |-> 400, body |-> [ok |-> FALSE, error |-> error]]
    /\ UNCHANGED <<DASHBOARD_TOKEN, config, store, hub, now, pending, budget>>

\* a check that trims the identifier first: only text with a non-space character passes
MissingFieldsTrimmed(phone, message) ==
    \/ ~Truthy(phone)
    \/ phone.t = "string" /\ trim(phone.s) = <<>>
    \/ message.t = "undefined"

\* a check of the body alone: any identifier passes, one left out included
MissingFieldsMessageOnly(phone, message) == message.t = "undefined"

\* !phone || typeof message === 'undefined'
MissingFields(phone, message) ==
    \/ ~Truthy(phone)
    \/ message.t = "undefined"

\* an includes() over all three directions of the store
DirectionAllowedWithUser(direction) == direction \in {"in", "out", "user"}

\* ['in','out'].includes(direction)
DirectionAllowed(direction) == direction \in {"in", "out"}

\* const { phone: p } = addMessage(phone, message, direction); res.json({ ok: true, phone: p })
Ingest(phone, message, direction) ==
    /\ Spend
    /\ addMessage(phone, message, direction)
    /\ resp' = [status |-> 200, body |-> [ok |-> TRUE, phone |-> normalizePhone(phone)]]
    /\ UNCHANGED <<DASHBOARD_TOKEN, config, now, pending>>

WebhookIncoming(auth, phone, message) ==
    /\ Idle
    /\ IF ~requireToken(auth) THEN Unauthorized("/webhook/incoming", auth)
       ELSE /\ req' = [Request("/webhook/incoming", auth) EXCEPT
                          !.phone = phone, !.message = message]
            /\ IF MissingFields(phone, message) THEN BadRequest(ExpectedPhoneMessage)
               ELSE Ingest(phone, message, "in")

WebhookOutgoing(auth, phone, message) ==
    /\ Idle
    /\ IF ~requireToken(auth) THEN Unauthorized("/webhook/outgoing", auth)
       ELSE /\ req' = [Request("/webhook/outgoing", auth) EXCEPT
                          !.phone = phone, !.message = message]
            /\ IF MissingFields(phone, message) THEN BadRequest(ExpectedPhoneMessage)
               ELSE Ingest(phone, message, "out")

\* a generic route that checks the direction only, not the shared fields
WebhookMessageDirectionOnly(auth, phone, message, direction) ==
    /\ Idle
    /\ IF ~requireToken(auth) THEN Unauthorized("/webhook/message", auth)
       ELSE /\ req' = [Request("/webhook/message", auth) EXCEPT
                          !.phone = phone, !.message = message,
                          !.direction = direction]
            /\ IF ~DirectionAllowed(direction)
               THEN BadRequest(ExpectedPhoneMessageDirection)
               ELSE Ingest(phone, message, direction)

WebhookMessage(auth, phone, message, direction) ==
    /\ Idle
    /\ IF ~requireToken(auth) THEN Unauthorized("/webhook/message", auth)
       ELSE /\ req' = [Request("/webhook/message", auth) EXCEPT
                          !.phone = phone, !.message = message,
                          !.direction = direction]
            /\ IF MissingFields(phone, message) \/ ~DirectionAllowed(direction)
               THEN BadRequest(ExpectedPhoneMessageDirection)
               ELSE Ingest(phone, message, direction)

(* ------------------------------- settings ------------------------------- *)
GetSettings(auth) ==
    /\ Idle
    /\ IF ~requireToken(auth) THEN Unauthorized("/settings", auth)
       ELSE /\ req' = Request("/settings", auth)
            /\ resp' = [status |-> 200, body |-> buildSettingsPayload(auth[2])]
            /\ UNCHANGED <<DASHBOARD_TOKEN, config, store, hub, now, pending, budget>>

\* a setter whose new message endpoint also becomes the destination of the
\* relay calls in flight
SettingsWebhooksRedirecting(auth, messageWebhookUrl, actionWebhookUrl) ==
    /\ Idle
    /\ IF ~requireToken(auth) THEN Unauthorized("/settings/webhooks", auth)
       ELSE /\ req' = [Request("/settings/webhooks", auth) EXCEPT
                          !.messageWebhookUrl = messageWebhookUrl,
                          !.actionWebhookUrl = actionWebhookUrl]
            /\ IF messageWebhookUrl.t # "string" \/ actionWebhookUrl.t # "string"
               THEN BadRequest("Provide both { messageWebhookUrl, actionWebhookUrl } as strings.")
               ELSE /\ Spend
                    /\ MESSAGE_WEBHOOK_URL' = trim(messageWebhookUrl.s)
                    /\ ACTION_WEBHOOK_URL' = trim(actionWebhookUrl.s)
                    /\ broadcast("settings",
                                 [messageWebhookUrl |-> MESSAGE_WEBHOOK_URL',
                                  actionWebhookUrl |-> ACTION_WEBHOOK_URL'])
                    /\ resp' = [status |-> 200,
                                body |-> [ok |-> TRUE,
                                          messageWebhookUrl |-> MESSAGE_WEBHOOK_URL',
                                          actionWebhookUrl |-> ACTION_WEBHOOK_URL']]
                    /\ pending' = [i \in DOMAIN pending |->
                                      [pending[i] EXCEPT !.url = MESSAGE_WEBHOOK_URL']]
                    /\ UNCHANGED <<DASHBOARD_TOKEN, store, sseClients, broken, now>>

\* a setter that checks and replaces only the fields that are provided
SettingsWebhooksPartial(auth, messageWebhookUrl, actionWebhookUrl) ==
    /\ Idle
    /\ IF ~requireToken(auth) THEN Unauthorized("/settings/webhooks", auth)
       ELSE /\ req' = [Request("/settings/webhooks", auth) EXCEPT
                          !.messageWebhookUrl = messageWebhookUrl,
                          !.actionWebhookUrl = actionWebhookUrl]
            /\ IF messageWebhookUrl.t \notin {"string", "undefined"}
                  \/ actionWebhookUrl.t \notin {"string", "undefined"}
               THEN BadRequest("Provide both { messageWebhookUrl, actionWebhookUrl } as strings.")
               ELSE /\ Spend
                    /\ MESSAGE_WEBHOOK_URL' =
                           IF messageWebhookUrl.t = "string"
                           THEN trim(messageWebhookUrl.s) ELSE MESSAGE_WEBHOOK_URL
                    /\ ACTION_WEBHOOK_URL' =
                           IF actionWebhookUrl.t = "string"
                           THEN trim(actionWebhookUrl.s) ELSE ACTION_WEBHOOK_URL
                    /\ broadcast("settings",
                                 [messageWebhookUrl |-> MESSAGE_WEBHOOK_URL',
                                  actionWebhookUrl |-> ACTION_WEBHOOK_URL'])
                    /\ resp' = [status |-> 200,
                                body |-> [ok |-> TRUE,
                                          messageWebhookUrl |-> MESSAGE_WEBHOOK_URL',
                                          actionWebhookUrl |-> ACTION_WEBHOOK_URL']]
                    /\ UNCHANGED <<DASHBOARD_TOKEN, store, sseClients, broken, now, pending>>

SettingsWebhooks(auth, messageWebhookUrl, actionWebhookUrl) ==
    /\ Idle
    /\ IF ~requireToken(auth) THEN Unauthorized("/settings/webhooks", auth)
       ELSE /\ req' = [Request("/settings/webhooks", auth) EXCEPT
                          !.messageWebhookUrl = messageWebhookUrl,
                          !.actionWebhookUrl = actionWebhookUrl]
            /\ IF messageWebhookUrl.t # "string" \/ actionWebhookUrl.t # "string"
               THEN BadRequest("Provide both { messageWebhookUrl, actionWebhookUrl } as strings.")
               ELSE /\ Spend
                    /\ MESSAGE_WEBHOOK_URL' = trim(messageWebhookUrl.s)
                    /\ ACTION_WEBHOOK_URL' = trim(actionWebhookUrl.s)
                    /\ broadcast("settings",
                                 [messageWebhookUrl |-> MESSAGE_WEBHOOK_URL',
                                  actionWebhookUrl |-> ACTION_WEBHOOK_URL'])
                    /\ resp' = [status |-> 200,
                                body |-> [ok |-> TRUE,
                                          messageWebhookUrl |-> MESSAGE_WEBHOOK_URL',
                                          actionWebhookUrl |-> ACTION_WEBHOOK_URL']]
                    /\ UNCHANGED <<DASHBOARD_TOKEN, store, sseClients, broken, now, pending>>

\* Back-compat: legacy single setter (sets message webhook)
SettingsWebhook(auth, url) ==
    /\ Idle
    /\ IF ~requireToken(auth) THEN Unauthorized("/settings/webhook", auth)
       ELSE /\ req' = [Request("/settings/webhook", auth) EXCEPT !.url = url]
            /\ IF ~Truthy(url) \/ url.t # "string"
               THEN BadRequest("Provide { url } as a string.")
               ELSE /\ Spend
                    /\ MESSAGE_WEBHOOK_URL' = trim(url.s)
                    /\ broadcast("settings", [messageWebhookUrl |-> MESSAGE_WEBHOOK_URL'])
                    /\ resp' = [status |-> 200,
                                body |-> [ok |-> TRUE,
                                          messageWebhookUrl |-> MESSAGE_WEBHOOK_URL']]
                    /\ UNCHANGED <<DASHBOARD_TOKEN, ACTION_WEBHOOK_URL, store, sseClients,
                                   broken, now, pending>>

(* ----------------------------- agent actions ---------------------------- *)
NoMessageWebhook == "No Message Webhook configured. Set it in Settings."
NoActionWebhook == "No Phone Button Webhook configured. Set it in Settings."

\* fetch(url, { method: 'POST', headers, body: JSON.stringify(body) }) is called
\* and the handler stops at its await: no response yet
fetch(route, url, body) ==
    /\ Spend
    /\ pending' = Append(pending,
                         [route |-> route, url |-> url, body |-> body,
                          fromDashboard |-> DASHBOARD_TOKEN # NoSecret])
    /\ resp' = NoResp

\* a /send that echoes whatever the configured url is
MessageWebhookMissingNever == FALSE

\* !MESSAGE_WEBHOOK_URL
MessageWebhookMissing == MESSAGE_WEBHOOK_URL = <<>>

\* a /send that relays the text it stored instead of the body it was given
SendRelaysEcho(auth, phone, message) ==
    /\ Idle
    /\ IF ~requireToken(auth) THEN Unauthorized("/send", auth)
       ELSE /\ req' = [Request("/send", auth) EXCEPT
                          !.phone = phone, !.message = message]
            /\ IF MissingFields(phone, message) THEN BadRequest(ExpectedPhoneMessage)
               ELSE IF MessageWebhookMissing THEN BadRequest(NoMessageWebhook)
               ELSE /\ addMessage(phone, message, "user")
                    /\ fetch("/send", MESSAGE_WEBHOOK_URL,
                             [phone |-> normalizePhone(phone),
                              message |-> Str(String(Coalesce(message, Str(<<>>))))])
                    /\ UNCHANGED <<DASHBOARD_TOKEN, config, now>>

Send(auth, phone, message) ==
    /\ Idle
    /\ IF ~requireToken(auth) THEN Unauthorized("/send", auth)
       ELSE /\ req' = [Request("/send", auth) EXCEPT
                          !.phone = phone, !.message = message]
            /\ IF MissingFields(phone, message) THEN BadRequest(ExpectedPhoneMessage)
               ELSE IF MessageWebhookMissing THEN BadRequest(NoMessageWebhook)
               ELSE /\ addMessage(phone, message, "user")
                    /\ fetch("/send", MESSAGE_WEBHOOK_URL,
                             [phone |-> normalizePhone(phone), message |-> message])
                    /\ UNCHANGED <<DASHBOARD_TOKEN, config, now>>

Action(auth, phone) ==
    /\ Idle
    /\ IF ~requireToken(auth) THEN Unauthorized("/action", auth)
       ELSE /\ req' = [Request("/action", auth) EXCEPT !.phone = phone]
            /\ IF ~Truthy(phone) THEN BadRequest("Expected JSON: { phone }")
               ELSE IF ACTION_WEBHOOK_URL = <<>> THEN BadRequest(NoActionWebhook)
               ELSE /\ fetch("/action", ACTION_WEBHOOK_URL,
                             [phone |-> normalizePhone(phone)])
                    /\ UNCHANGED <<DASHBOARD_TOKEN, config, store, hub, now>>

\* a /stop that echoes a message into the store as /send does
StopWithEcho(auth) ==
    /\ Idle
    /\ IF ~requireToken(auth) THEN Unauthorized("/stop", auth)
       ELSE /\ req' = Request("/stop", auth)
            /\ IF MessageWebhookMissing THEN BadRequest(NoMessageWebhook)
               ELSE /\ addMessage(Str(<<"0">>), Str(<<"s", "t", "o", "p">>), "user")
                    /\ fetch("/stop", MESSAGE_WEBHOOK_URL, [stop |-> "yes"])
                    /\ UNCHANGED <<DASHBOARD_TOKEN, config, now>>

Stop(auth) ==
    /\ Idle
    /\ IF ~requireToken(auth) THEN Unauthorized("/stop", auth)
       ELSE /\ req' = Request("/stop", auth)
            /\ IF MessageWebhookMissing THEN BadRequest(NoMessageWebhook)
               ELSE /\ fetch("/stop", MESSAGE_WEBHOOK_URL, [stop |-> "yes"])
                    /\ UNCHANGED <<DASHBOARD_TOKEN, config, store, hub, now>>

\* text.slice(0, 1000)
ExcerptLimit == 1000
slice(text) ==
    SubSeq(text, 1, IF Len(text) < ExcerptLimit THEN Len(text) ELSE ExcerptLimit)

RemoveAt(q, i) == SubSeq(q, 1, i - 1) \o SubSeq(q, i + 1, Len(q))

\* a continuation without the try/catch: a rejected fetch is answered by nothing
SettleUncaught(i, outcome) ==
    /\ Idle
    /\ i \in 1..Len(pending)
    /\ Spend
    /\ pending' = RemoveAt(pending, i)
    /\ req' = [NoReq EXCEPT !.step = "settle", !.route = pending[i].route,
                             !.relay = outcome]
    /\ resp' = IF outcome.kind = "response"
               THEN [status |-> 200,
                     body |-> [ok |-> outcome.status \in 200..299,
                               status |-> outcome.status,
                               response |-> slice(outcome.text)]]
               ELSE NoResp
    /\ UNCHANGED <<DASHBOARD_TOKEN, config, store, hub, now>>

\* a continuation that takes the echo of a failed /send back out of the store
SettleRollback(i, outcome) ==
    /\ Idle
    /\ i \in 1..Len(pending)
    /\ Spend
    /\ pending' = RemoveAt(pending, i)
    /\ req' = [NoReq EXCEPT !.step = "settle", !.route = pending[i].route,
                             !.relay = outcome]
    /\ resp' = IF outcome.kind = "response"
               THEN [status |-> 200,
                     body |-> [ok |-> outcome.status \in 200..299,
                               status |-> outcome.status,
                               response |-> slice(outcome.text)]]
               ELSE [status |-> 500, body |-> [ok |-> FALSE, error |-> "fetch failed"]]
    /\ chats' = IF pending[i].route = "/send" /\ outcome.kind = "reject"
                THEN [chats EXCEPT ![pending[i].body.phone] =
                          SubSeq(@, 1, Len(@) - 1)]
                ELSE chats
    /\ UNCHANGED <<DASHBOARD_TOKEN, config, appendLog, hub, now>>

\* the rest of /send, /action and /stop, run when the awaited fetch settles
Settle(i, outcome) ==
    /\ Idle
    /\ i \in 1..Len(pending)
    /\ Spend
    /\ pending' = RemoveAt(pending, i)
    /\ req' = [NoReq EXCEPT !.step = "settle", !.route = pending[i].route,
                             !.relay = outcome]
    /\ resp' = IF outcome.kind = "response"
               THEN [status |-> 200,
                     body |-> [ok |-> outcome.status \in 200..299,
                               status |-> outcome.status,
                               response |-> slice(outcome.text)]]
               ELSE [status |-> 500, body |-> [ok |-> FALSE, error |-> "fetch failed"]]
    /\ UNCHANGED <<DASHBOARD_TOKEN, config, store, hub, now>>

\* GET /: the page
Root(auth) ==
    /\ Idle
    /\ IF ~requireToken(auth) THEN Unauthorized("/", auth)
       ELSE /\ req' = Request("/", auth)
            /\ resp' = [status |-> 200, body |-> [html |-> TRUE]]
            /\ UNCHANGED <<DASHBOARD_TOKEN, config, store, hub, now, pending, budget>>

(* ---------------------------- specifications ---------------------------- *)
\* every route and every event, each with a few inputs
Next ==
    \/ \E auth \in AuthFew : Events(auth)
    \/ \E v \in Viewers : Close(v)
    \/ \E v \in Viewers : BreakChannel(v)
    \/ Tick
    \/ Forget
    \/ \E auth \in AuthFew, phone \in PhonesFew, message \in MessagesFew :
           WebhookIncoming(auth, phone, message)
    \/ \E auth \in AuthFew, phone \in PhonesFew, message \in MessagesFew :
           WebhookOutgoing(auth, phone, message)
    \/ \E auth \in AuthFew, phone \in PhonesFew, message \in MessagesFew,
          direction \in DirectionsFew :
           WebhookMessage(auth, phone, message, direction)
    \/ \E auth \in AuthFew : GetSettings(auth)
    \/ \E auth \in AuthFew, m \in UrlsFew, a \in UrlsFew : SettingsWebhooks(auth, m, a)
    \/ \E auth \in AuthFew, url \in UrlsFew : SettingsWebhook(auth, url)
    \/ \E auth \in AuthFew, phone \in PhonesFew, message \in MessagesFew :
           Send(auth, phone, message)
    \/ \E auth \in AuthFew, phone \in PhonesFew : Action(auth, phone)
    \/ \E auth \in AuthFew : Stop(auth)
    \/ \E i \in DOMAIN pending, outcome \in RelayOutcomes : Settle(i, outcome)
    \/ \E auth \in AuthFew : Root(auth)

Spec == Init /\ [][Next]_vars

\* viewers attaching, failing and leaving while messages are appended
NextFanout ==
    \/ \E auth \in AuthOne : Events(auth)
    \/ \E v \in Viewers : Close(v)
    \/ \E v \in Viewers : BreakChannel(v)
    \/ Forget
    \/ \E auth \in AuthOne, phone \in PhonesTwo, message \in MessagesOne :
           WebhookIncoming(auth, phone, message)
    \/ \E auth \in AuthOne, phone \in PhonesTwo, message \in MessagesOne :
           Send(auth, phone, message)
    \/ \E i \in DOMAIN pending, outcome \in RelayOutcomes : Settle(i, outcome)

SpecFanout == InitWith(MaxStepsFanout, {NoSecret, "tok"}, {EnvSet}) /\ [][NextFanout]_vars

\* the three webhooks over every kind of identifier, body and direction
NextIngest ==
    \/ \E auth \in AuthOne : Events(auth)
    \/ Forget
    \/ \E auth \in AuthOne, phone \in PhoneInputs, message \in MessageInputs :
           WebhookIncoming(auth, phone, message)
    \/ \E auth \in AuthOne, phone \in PhoneInputs, message \in MessageInputs :
           WebhookOutgoing(auth, phone, message)
    \/ \E auth \in AuthOne, phone \in PhoneInputs, message \in MessageInputs,
          direction \in DirectionInputs :
           WebhookMessage(auth, phone, message, direction)

SpecIngest == InitWith(MaxStepsIngest, {"tok"}, {EnvUnset}) /\ [][NextIngest]_vars

\* every route under every way of sending, or not sending, a token
NextAuth ==
    \/ \E auth \in AuthInputs : Events(auth)
    \/ \E v \in Viewers : Close(v)
    \/ Forget
    \/ \E auth \in AuthInputs, phone \in PhonesOne, message \in MessagesOne :
           WebhookIncoming(auth, phone, message)
    \/ \E auth \in AuthInputs, phone \in PhonesOne, message \in MessagesOne :
           WebhookOutgoing(auth, phone, message)
    \/ \E auth \in AuthInputs, phone \in PhonesOne, message \in MessagesOne :
           WebhookMessage(auth, phone, message, "in")
    \/ \E auth \in AuthInputs : GetSettings(auth)
    \/ \E auth \in AuthInputs, m \in UrlsOne, a \in UrlsOne : SettingsWebhooks(auth, m, a)
    \/ \E auth \in AuthInputs, url \in UrlsOne : SettingsWebhook(auth, url)
    \/ \E auth \in AuthInputs, phone \in PhonesOne, message \in MessagesOne :
           Send(auth, phone, message)
    \/ \E auth \in AuthInputs, phone \in PhonesOne : Action(auth, phone)
    \/ \E auth \in AuthInputs : Stop(auth)
    \/ \E i \in DOMAIN pending, outcome \in RelayOutcomes : Settle(i, outcome)
    \/ \E auth \in AuthInputs : Root(auth)

SpecAuth == InitWith(MaxStepsAuth, {NoSecret, "tok"}, {EnvUnset, EnvSet}) /\ [][NextAuth]_vars

\* normalizePhone applied by its two callers to identifiers of every shape
NextNormalize ==
    \/ Forget
    \/ \E auth \in AuthOne, phone \in RawIdentifiers, message \in MessagesOne :
           WebhookIncoming(auth, phone, message)
    \/ \E auth \in AuthOne, phone \in RawIdentifiers : Action(auth, phone)
    \/ \E i \in DOMAIN pending, outcome \in RelayOutcomes : Settle(i, outcome)

SpecNormalize == InitWith(MaxStepsNormalize, {NoSecret}, {EnvSet}) /\ [][NextNormalize]_vars

\* the settings routes over every kind of value, with the relays that read
\* the configuration
NextSettings ==
    \/ \E auth \in AuthOne : Events(auth)
    \/ Forget
    \/ \E auth \in AuthOne : GetSettings(auth)
    \/ \E auth \in AuthOne, m \in UrlInputs, a \in UrlInputs : SettingsWebhooks(auth, m, a)
    \/ \E auth \in AuthOne, url \in UrlInputs : SettingsWebhook(auth, url)
    \/ \E auth \in AuthOne, phone \in PhonesOne, message \in MessagesOne :
           Send(auth, phone, message)
    \/ \E auth \in AuthOne, phone \in PhonesOne : Action(auth, phone)
    \/ \E auth \in AuthOne : Stop(auth)
    \/ \E i \in DOMAIN pending, outcome \in RelayOutcomes : Settle(i, outcome)

SpecSettings ==
    InitWith(MaxStepsSettings, {NoSecret}, {EnvUnset, EnvSet, EnvPadded})
    /\ [][NextSettings]_vars

\* /send and /action over every kind of identifier and body, endpoints set
NextRelay ==
    \/ Forget
    \/ \E auth \in AuthOne, phone \in PhoneInputs, message \in MessageInputs :
           Send(auth, phone, message)
    \/ \E auth \in AuthOne, phone \in PhoneInputs : Action(auth, phone)
    \/ \E i \in DOMAIN pending, outcome \in RelayOutcomes : Settle(i, outcome)

SpecRelay == InitWith(MaxStepsRelay, {NoSecret}, {EnvSet}) /\ [][NextRelay]_vars

(* ------------------------- the dashboard page --------------------------- *)
\* if (!chats[phone]) chats[phone] = []; chats[phone].push({ body, direction, ts })
PushedTo(m, phone, msg) ==
    [k \in DOMAIN m \cup {phone} |->
        IF k = phone
        THEN Append(IF k \in DOMAIN m THEN m[k] ELSE <<>>, msg)
        ELSE m[k]]

\* the chats of a page that was sent the events of log: 'init' sets them,
\* every 'message' pushes one
RECURSIVE ViewerChats(_)
ViewerChats(log) ==
    IF Len(log) = 1 THEN log[1].data.chats
    ELSE LET seen == ViewerChats(SubSeq(log, 1, Len(log) - 1))
             e == log[Len(log)]
         IN  IF e.event = "message"
             THEN PushedTo(seen, e.data.phone,
                           [body |-> e.data.body, direction |-> e.data.direction,
                            ts |-> e.data.ts])
             ELSE seen

\* applySettings(payload): a field of the payload that is text replaces the
\* value shown
applySettings(shown, payload) ==
    [messageWebhookUrl |->
         IF "messageWebhookUrl" \in DOMAIN payload
         THEN payload.messageWebhookUrl ELSE shown.messageWebhookUrl,
     actionWebhookUrl |->
         IF "actionWebhookUrl" \in DOMAIN payload
         THEN payload.actionWebhookUrl ELSE shown.actionWebhookUrl]

\* the webhook URLs shown by a page that was sent the events of log: 'init'
\* and every 'settings' go through applySettings
RECURSIVE ViewerSettings(_)
ViewerSettings(log) ==
    IF Len(log) = 1
    THEN applySettings([messageWebhookUrl |-> <<>>, actionWebhookUrl |-> <<>>], log[1].data)
    ELSE LET shown == ViewerSettings(SubSeq(log, 1, Len(log) - 1))
             e == log[Len(log)]
         IN  IF e.event = "settings" THEN applySettings(shown, e.data) ELSE shown

(* ------------------------------ the claims ------------------------------ *)
IngestRoutes == {"/webhook/incoming", "/webhook/outgoing", "/webhook/message"}

\* the state right after a handler of route ran (the request passed requireToken)
Handled(route) == req.step = "request" /\ req.route = route /\ resp.status # 401

\* the messages of conversation k in m, none when there is no such conversation
Conversation(m, k) == IF k \in DOMAIN m THEN m[k] ELSE <<>>

IsPrefix(a, b) == Len(a) <= Len(b) /\ SubSeq(b, 1, Len(a)) = a

MessageEvents(log) == SelectSeq(log, LAMBDA e : e.event = "message")

\* the message event addMessage broadcasts for an entry of appendLog
EventOf(entry) ==
    [event |-> "message",
     data |-> [phone |-> entry.phone, body |-> entry.msg.body,
               direction |-> entry.msg.direction, ts |-> entry.msg.ts]]

RECURSIVE StoredCount(_)
StoredCount(m) ==
    IF DOMAIN m = {} THEN 0
    ELSE LET k == CHOOSE x \in DOMAIN m : TRUE
         IN  Len(m[k]) + StoredCount([x \in DOMAIN m \ {k} |-> m[x]])

\* C3: the message events of an attached viewer whose writes succeed are,
\* one for one and in the same order, the appends made since it attached: none
\* dropped, none doubled, none reordered, so any two such viewers hold the
\* same events in the same order from the later attach on.
C3_EventsAreTheAppendsSinceAttach ==
    \A v \in sseClients \ broken :
        LET ev == MessageEvents(received[v])
            since == Len(appendLog) - Len(ev)
        IN  /\ since = StoredCount(received[v][1].data.chats)
            /\ \A i \in 1..Len(ev) : ev[i] = EventOf(appendLog[since + i])

\* two viewers are attached and each was sent the events of two appends, to
\* two conversations
C3_Witness ==
    /\ Cardinality(sseClients \ broken) = 2
    /\ \A v \in sseClients : Len(MessageEvents(received[v])) = 2
    /\ Cardinality(DOMAIN chats) = 2

\* every conversation is the appends made to it, in order
StoreIsLog ==
    /\ DOMAIN chats = {appendLog[i].phone : i \in DOMAIN appendLog}
    /\ \A k \in DOMAIN chats :
           LET mine == SelectSeq(appendLog, LAMBDA e : e.phone = k)
           IN  chats[k] = [i \in 1..Len(mine) |-> mine[i].msg]

\* C4: the store is append-only. In every state each conversation is the
\* sequence of the appends made to it, in insertion order, and every step of
\* every kind leaves each conversation as a prefix of its next value: nothing is
\* removed, changed or reordered.
C4_AppendOnly ==
    /\ []StoreIsLog
    /\ [][\A k \in DOMAIN chats :
              k \in DOMAIN chats' /\ IsPrefix(chats[k], chats'[k])]_vars

\* a conversation holds two different messages and another conversation exists
C4_Witness ==
    \E k \in DOMAIN chats :
        /\ Len(chats[k]) = 2
        /\ chats[k][1] # chats[k][2]
        /\ DOMAIN chats # {k}

\* C5: within every conversation the timestamps never decrease along the
\* insertion order (equal ones allowed), each being the reading of the clock
\* at insertion and the clock never running backwards.
C5_TimestampsNonDecreasing ==
    \A k \in DOMAIN chats :
        \A i, j \in DOMAIN chats[k] : i < j => chats[k][i].ts <= chats[k][j].ts

\* a conversation with two messages, the second stamped later than the first
C5_Witness ==
    \E k \in DOMAIN chats :
        Len(chats[k]) = 2 /\ chats[k][1].ts < chats[k][2].ts

Blank(v) ==
    \/ v.t \in {"undefined", "null"}
    \/ v.t = "string" /\ trim(v.s) = <<>>

\* an identifier that is left out, null, the empty text or 0
AbsentOrEmpty(v) ==
    \/ v.t \in {"undefined", "null"}
    \/ v.t = "string" /\ v.s = <<>>
    \/ v.t = "number" /\ v.n = 0

\* C7 as the spec states it: a delivery whose identifier is absent, empty or
\* only white space is rejected with 400, and every accepted delivery has an
\* identifier that is non-empty after trimming.
C7_BlankIdentifierRejected ==
    (req.step = "request" /\ req.route \in IngestRoutes /\ resp.status # 401)
    => /\ Blank(req.phone) => resp.status = 400
       /\ resp.status = 200 => ~Blank(req.phone)

\* C7, amended: the identifier is checked as it was sent, not trimmed. A
\* delivery whose identifier is absent, null, empty or 0 is rejected with 400;
\* every rejected delivery leaves the store unchanged and broadcasts nothing;
\* a delivery whose identifier is only white space passes the check and, its
\* other fields being valid, is stored under the empty conversation key.
C7_IdentifierCheckedUntrimmed ==
    [][(req'.step = "request" /\ req'.route \in IngestRoutes /\ resp'.status # 401)
       => /\ resp'.status \in {200, 400}
          /\ AbsentOrEmpty(req'.phone) => resp'.status = 400
          /\ resp'.status = 400
             => resp'.body.ok = FALSE /\ UNCHANGED <<chats, appendLog, received>>
          /\ (/\ req'.phone.t = "string" /\ req'.phone.s # <<>>
              /\ trim(req'.phone.s) = <<>>
              /\ req'.message.t # "undefined"
              /\ req'.route = "/webhook/message" => req'.direction \in {"in", "out"})
             => /\ resp'.status = 200
                /\ resp'.body.phone = <<>>
                /\ Len(Conversation(chats', <<>>)) = Len(Conversation(chats, <<>>)) + 1]_vars

\* a delivery whose identifier is one space was accepted, with a viewer attached
C7_Witness ==
    /\ req.step = "request" /\ req.route = "/webhook/incoming"
    /\ req.phone = Str(<<" ">>)
    /\ resp.status = 200 /\ resp.body.phone = <<>>
    /\ <<>> \in DOMAIN chats
    /\ sseClients # {}

\* C8: a /webhook/message whose direction is not exactly 'in' or 'out' (left
\* out, 'user', anything else) is rejected with 400 {ok: false}, whatever its
\* other fields; the store is unchanged and no viewer is sent anything.
C8_OtherDirectionsRejected ==
    [][(req'.step = "request" /\ req'.route = "/webhook/message" /\ resp'.status # 401
          /\ req'.direction \notin {"in", "out"})
       => /\ resp'.status = 400
          /\ resp'.body.ok = FALSE
          /\ UNCHANGED <<chats, appendLog, received, sseClients>>]_vars

\* a well-formed delivery with direction 'user' was rejected, a viewer attached
C8_Witness ==
    /\ Handled("/webhook/message")
    /\ req.direction = "user"
    /\ req.phone = Str(RawPhoneA) /\ req.message = Str(<<"h", "i">>)
    /\ resp.status = 400
    /\ sseClients # {}

\* C9: every append with direction 'user' was made by POST /send and every
\* append made by an ingestion route has direction 'in' or 'out'; every 'user'
\* message of the store is such an append of /send.
C9_OperatorMessagesComeFromSend ==
    /\ \A i \in DOMAIN appendLog :
           /\ appendLog[i].msg.direction = "user" <=> appendLog[i].via = "/send"
           /\ appendLog[i].via \in IngestRoutes
              => appendLog[i].msg.direction \in {"in", "out"}
    /\ \A k \in DOMAIN chats :
           \A i \in DOMAIN chats[k] :
               chats[k][i].direction = "user"
               => \E j \in DOMAIN appendLog :
                      /\ appendLog[j].via = "/send"
                      /\ appendLog[j].phone = k
                      /\ appendLog[j].msg = chats[k][i]

\* the store holds a message of /send and one of /webhook/message
C9_Witness ==
    /\ \E i \in DOMAIN appendLog : appendLog[i].via = "/send"
    /\ \E j \in DOMAIN appendLog : appendLog[j].via = "/webhook/message"
    /\ \E k \in DOMAIN chats : \E i \in DOMAIN chats[k] : chats[k][i].direction = "user"

\* the direction an ingestion route gives its message
RouteDirection(r) ==
    CASE r.route = "/webhook/incoming" -> "in"
      [] r.route = "/webhook/outgoing" -> "out"
      [] OTHER -> r.direction

\* C10: an ingestion answered 200 appended exactly one message (the route's
\* direction, the body as text, the clock's reading) to the conversation keyed
\* by the normalized identifier, creating it if need be; every other
\* conversation and the configuration are unchanged; the answer is {ok: true,
\* phone: that key}. "+1 (555) 000-1111" is stored and returned as
\* "+15550001111"; a null body is stored as '', the number 7 as '7'.
C10_IngestionAppendsOne ==
    [][(req'.step = "request" /\ req'.route \in IngestRoutes /\ resp'.status = 200)
       => LET k == normalizePhone(req'.phone)
              text == String(Coalesce(req'.message, Str(<<>>)))
          IN  /\ chats' = PushedTo(chats, k,
                                   [body |-> text, direction |-> RouteDirection(req'),
                                    ts |-> now])
              /\ Len(appendLog') = Len(appendLog) + 1
              /\ UNCHANGED config
              /\ resp'.body = [ok |-> TRUE, phone |-> k]
              /\ req'.phone = Str(RawPhoneA) => k = PhoneA
              /\ req'.message = Null => text = <<>>
              /\ req'.message = Num(7) => text = <<"7">>
              /\ req'.message.t = "string" => text = req'.message.s]_vars

\* "+1 (555) 000-1111" was ingested by /webhook/incoming into a store that held
\* another conversation
C10_Witness ==
    /\ Handled("/webhook/incoming")
    /\ req.phone = Str(RawPhoneA) /\ req.message = Str(<<"h", "i">>)
    /\ resp.status = 200 /\ resp.body.phone = PhoneA
    /\ PhoneA \in DOMAIN chats
    /\ Len(chats[PhoneA]) = 1
    /\ chats[PhoneA][1].direction = "in" /\ chats[PhoneA][1].body = <<"h", "i">>
    /\ DOMAIN chats # {PhoneA}

\* the identifiers the server has produced: the keys of the store, the phone of
\* every append and of every /action relay still pending
Produced ==
    DOMAIN chats
    \cup {appendLog[i].phone : i \in DOMAIN appendLog}
    \cup {pending[i].body.phone : i \in {j \in DOMAIN pending : pending[j].route = "/action"}}

\* C11: normalizing a normalized identifier changes nothing: for the raw
\* identifier r of a request, normalize(normalize(r)) = normalize(r), and every
\* identifier the server produced is its own normal form.
C11_NormalizeIdempotent ==
    /\ \A k \in Produced : normalizePhone(Str(k)) = k
    /\ (req.step = "request" /\ req.route \in {"/webhook/incoming", "/action"})
       => normalizePhone(Str(normalizePhone(req.phone))) = normalizePhone(req.phone)

\* " 1 " was ingested and stored as "1"
C11_Witness ==
    /\ Handled("/webhook/incoming")
    /\ req.phone = Str(<<" ", "1", " ">>)
    /\ resp.status = 200 /\ resp.body.phone = <<"1">>
    /\ <<"1">> \in DOMAIN chats

\* C12 as the spec states it: a normalized identifier is digits only, except
\* for a '+' in first position; a '+' elsewhere in the input is removed.
C12_PlusOnlyLeading ==
    \A k \in Produced :
        \A i \in DOMAIN k : i > 1 => k[i] # "+"

\* "1+" was ingested: the '+' after the digit is kept
C12_Witness ==
    /\ Handled("/webhook/incoming")
    /\ req.phone = Str(<<"1", "+">>)
    /\ resp.status = 200 /\ resp.body.phone = <<"1", "+">>

\* what the viewers have been sent once event has been written to every
\* attached viewer whose channel works
Delivered(event, data) ==
    [v \in Viewers |->
        IF v \in sseClients \ broken
        THEN Append(received[v], [event |-> event, data |-> data])
        ELSE received[v]]

\* the response of /webhook/incoming and /webhook/outgoing to the body of request r
FixedRouteResponse(r) ==
    IF ~Truthy(r.phone) \/ r.message.t = "undefined"
    THEN [status |-> 400, body |-> [ok |-> FALSE, error |-> ExpectedPhoneMessage]]
    ELSE [status |-> 200, body |-> [ok |-> TRUE, phone |-> normalizePhone(r.phone)]]

\* C13 as the spec states it: /webhook/message with direction 'in' or 'out'
\* answers every body exactly as /webhook/incoming or /webhook/outgoing does.
C13_SameResponse ==
    (req.step = "request" /\ req.route \in IngestRoutes /\ resp.status # 401
       /\ RouteDirection(req) \in {"in", "out"})
    => resp = FixedRouteResponse(req)

\* C13, amended: with direction 'in' (resp. 'out') /webhook/message accepts
\* and rejects the same phone and message as /webhook/incoming (resp.
\* /webhook/outgoing); an accepted delivery gets the same response, the same
\* resulting store and the same message event at every viewer whatever the
\* route; a rejected delivery gets 400 {ok: false} on every route and changes
\* nothing, only the error text being the route's own.
C13_RoutesAgree ==
    [][(req'.step = "request" /\ req'.route \in IngestRoutes /\ resp'.status # 401
          /\ RouteDirection(req') \in {"in", "out"})
       => LET k == normalizePhone(req'.phone)
              msg == [body |-> String(Coalesce(req'.message, Str(<<>>))),
                      direction |-> RouteDirection(req'), ts |-> now]
          IN  IF ~Truthy(req'.phone) \/ req'.message.t = "undefined"
              THEN /\ resp'.status = 400
                   /\ resp'.body.ok = FALSE
                   /\ resp'.body.error =
                          IF req'.route = "/webhook/message"
                          THEN ExpectedPhoneMessageDirection
                          ELSE ExpectedPhoneMessage
                   /\ UNCHANGED <<chats, received, sseClients, broken, config>>
              ELSE /\ resp' = [status |-> 200, body |-> [ok |-> TRUE, phone |-> k]]
                   /\ chats' = PushedTo(chats, k, msg)
                   /\ received' =
                          Delivered("message",
                                    [phone |-> k, body |-> msg.body,
                                     direction |-> msg.direction, ts |-> msg.ts])
                   /\ UNCHANGED <<sseClients, broken, config>>]_vars

\* the same body went through /webhook/incoming and through /webhook/message
\* with direction 'in': two equal messages in one conversation
C13_Witness ==
    /\ Handled("/webhook/message")
    /\ req.direction = "in" /\ req.phone = Str(RawPhoneA)
    /\ resp.status = 200
    /\ Len(appendLog) = 2
    /\ appendLog[1].via = "/webhook/incoming"
    /\ appendLog[2].via = "/webhook/message"
    /\ appendLog[1].phone = appendLog[2].phone
    /\ appendLog[1].msg = appendLog[2].msg

\* the first event of every viewer is its only init event
InitIsFirst ==
    \A v \in Viewers :
        /\ Len(received[v]) >= 1
        /\ received[v][1].event = "init"
        /\ \A i \in 2..Len(received[v]) : received[v][i].event # "init"

\* C14: the first event a viewer receives is an init event carrying the store
\* and the configuration as they are when it attaches; no message or settings
\* event reaches a viewer before its init, whatever was handled before or after.
C14_InitFirstWithCurrentState ==
    /\ []InitIsFirst
    /\ [][Len(received') > Len(received)
          => LET v == Len(received')
             IN  /\ v \in sseClients' /\ v \notin sseClients
                 /\ Len(received'[v]) = 1
                 /\ received'[v][1].event = "init"
                 /\ received'[v][1].data.chats = chats
                 /\ received'[v][1].data.messageWebhookUrl = MESSAGE_WEBHOOK_URL
                 /\ received'[v][1].data.actionWebhookUrl = ACTION_WEBHOOK_URL
                 /\ UNCHANGED <<chats, config>>
                 /\ \A w \in Viewers : received'[w] = received[w]]_vars

\* a viewer attached after a settings update and an append: its init carries both
C14_Witness ==
    \E v \in sseClients :
        /\ received[v][1].event = "init"
        /\ received[v][1].data.messageWebhookUrl = UrlY
        /\ received[v][1].data.messageWebhookUrl = MESSAGE_WEBHOOK_URL
        /\ DOMAIN received[v][1].data.chats # {}
        /\ received[v][1].data.chats = chats

\* the configuration as a page shows it
Configuration ==
    [messageWebhookUrl |-> MESSAGE_WEBHOOK_URL, actionWebhookUrl |-> ACTION_WEBHOOK_URL]

\* C15 as the spec states it: every attached viewer's view of the
\* configuration (init merged with the later settings events) is the current
\* configuration.
C15_EveryAttachedViewerCurrent ==
    \A v \in sseClients : ViewerSettings(received[v]) = Configuration

\* the view of every attached viewer whose channel writes succeed is current
WorkingViewersCurrent ==
    \A v \in sseClients \ broken : ViewerSettings(received[v]) = Configuration

\* C15, amended: a successful settings update replaces the configuration with
\* the trimmed values and in the same step writes a settings event with the new
\* values to every attached viewer; the view of every attached viewer whose
\* channel writes succeed equals the current configuration; a relay is issued
\* to the URL configured when its request is handled (/send and /stop to the
\* message endpoint, /action to the action endpoint).
C15_SettingsUpdateReachesViewers ==
    /\ []WorkingViewersCurrent
    /\ [][/\ (req'.step = "request" /\ req'.route = "/settings/webhooks"
                /\ resp'.status = 200)
             => /\ MESSAGE_WEBHOOK_URL' = trim(req'.messageWebhookUrl.s)
                /\ ACTION_WEBHOOK_URL' = trim(req'.actionWebhookUrl.s)
                /\ req'.messageWebhookUrl = Str(<<" ">> \o UrlX)
                   => MESSAGE_WEBHOOK_URL' = UrlX
                /\ received' = Delivered("settings",
                                         [messageWebhookUrl |-> MESSAGE_WEBHOOK_URL',
                                          actionWebhookUrl |-> ACTION_WEBHOOK_URL'])
                /\ resp'.body = [ok |-> TRUE,
                                 messageWebhookUrl |-> MESSAGE_WEBHOOK_URL',
                                 actionWebhookUrl |-> ACTION_WEBHOOK_URL']
          /\ (req'.step = "request" /\ req'.route = "/settings/webhook"
                /\ resp'.status = 200)
             => /\ MESSAGE_WEBHOOK_URL' = trim(req'.url.s)
                /\ req'.url = Str(<<" ">> \o UrlX) => MESSAGE_WEBHOOK_URL' = UrlX
                /\ UNCHANGED ACTION_WEBHOOK_URL
                /\ received' = Delivered("settings",
                                         [messageWebhookUrl |-> MESSAGE_WEBHOOK_URL'])
          /\ Len(pending') > Len(pending)
             => /\ pending' = Append(pending, pending'[Len(pending')])
                /\ UNCHANGED config
                /\ pending'[Len(pending')].url =
                       IF pending'[Len(pending')].route = "/action"
                       THEN ACTION_WEBHOOK_URL ELSE MESSAGE_WEBHOOK_URL]_vars

\* /settings/webhooks with {" https://x", "https://y"} on a server started
\* without endpoints: the attached viewer was sent the trimmed values
C15_Witness ==
    /\ Handled("/settings/webhooks")
    /\ req.messageWebhookUrl = Str(<<" ">> \o UrlX)
    /\ resp.status = 200
    /\ MESSAGE_WEBHOOK_URL = UrlX /\ ACTION_WEBHOOK_URL = UrlY
    /\ \E v \in sseClients \ broken :
           /\ Len(received[v]) = 2
           /\ received[v][1].data.messageWebhookUrl = <<>>
           /\ received[v][2] = [event |-> "settings",
                                data |-> [messageWebhookUrl |-> UrlX,
                                          actionWebhookUrl |-> UrlY]]

\* C16 as the spec states it: sending the values GET /settings returns back
\* through POST /settings/webhooks is accepted, leaves the configuration as it
\* is and broadcasts a settings event with the current values.
C16_RoundTripChangesNothing ==
    [][(req'.step = "request" /\ req'.route = "/settings/webhooks"
          /\ resp'.status # 401
          /\ req'.messageWebhookUrl = Str(buildSettingsPayload(req'.query).messageWebhookUrl)
          /\ req'.actionWebhookUrl = Str(buildSettingsPayload(req'.query).actionWebhookUrl))
       => /\ resp'.status = 200
          /\ UNCHANGED config
          /\ received' = Delivered("settings", Configuration)]_vars

\* the server was started with SEND_WEBHOOK_URL=" https://x" and was sent
\* that value back: the configuration is now "https://x"
C16_Witness ==
    /\ Handled("/settings/webhooks")
    /\ req.messageWebhookUrl = Str(<<" ">> \o UrlX)
    /\ req.actionWebhookUrl = Str(UrlY)
    /\ resp.status = 200
    /\ MESSAGE_WEBHOOK_URL = UrlX
    /\ budget = MaxStepsSettings - 1

\* C17 as the spec states it: a /settings/webhooks request that provides some
\* of the fields, each of them text, is accepted; one with a provided field that
\* is not text is rejected with 400.
C17_ProvidedFieldsOnly ==
    Handled("/settings/webhooks")
    => LET provided == {f \in {req.messageWebhookUrl, req.actionWebhookUrl} :
                            f.t # "undefined"}
       IN  /\ (provided # {} /\ \A f \in provided : f.t = "string")
              => resp.status = 200
           /\ (\E f \in provided : f.t # "string") => resp.status = 400

\* C17, amended: /settings/webhooks is accepted only when both fields are
\* provided as text, and then replaces both with their trimmed values; a
\* request that leaves a field out or gives one that is not text is rejected
\* with 400. /settings/webhook is accepted only when url is non-empty text, and
\* then replaces the message endpoint alone. A rejected request leaves the
\* configuration unchanged and broadcasts nothing.
C17_BothFieldsRequired ==
    [][   /\ (req'.step = "request" /\ req'.route = "/settings/webhooks"
                /\ resp'.status # 401)
             => IF req'.messageWebhookUrl.t = "string" /\ req'.actionWebhookUrl.t = "string"
                THEN /\ resp'.status = 200
                     /\ MESSAGE_WEBHOOK_URL' = trim(req'.messageWebhookUrl.s)
                     /\ ACTION_WEBHOOK_URL' = trim(req'.actionWebhookUrl.s)
                ELSE /\ resp'.status = 400
                     /\ resp'.body.ok = FALSE
                     /\ UNCHANGED <<config, received>>
          /\ (req'.step = "request" /\ req'.route = "/settings/webhook"
                /\ resp'.status # 401)
             => IF req'.url.t = "string" /\ req'.url.s # <<>>
                THEN /\ resp'.status = 200
                     /\ MESSAGE_WEBHOOK_URL' = trim(req'.url.s)
                     /\ UNCHANGED ACTION_WEBHOOK_URL
                ELSE /\ resp'.status = 400
                     /\ resp'.body.ok = FALSE
                     /\ UNCHANGED <<config, received>>]_vars

\* {messageWebhookUrl: "https://y"} alone was rejected with a viewer attached:
\* the endpoints of the environment are still configured
C17_Witness ==
    /\ Handled("/settings/webhooks")
    /\ req.messageWebhookUrl = Str(UrlY)
    /\ req.actionWebhookUrl = Undefined
    /\ resp.status = 400
    /\ MESSAGE_WEBHOOK_URL = UrlX /\ ACTION_WEBHOOK_URL = UrlY
    /\ \E v \in sseClients : Len(received[v]) = 1

\* C18: no step of /stop or /action (the handler, or its continuation when the
\* relay settles, whatever the outcome) changes the store or the configuration
\* or writes to a viewer; the handler issues at most one relay call, its own.
C18_StopAndActionOnlyRelay ==
    [][(req'.step \in {"request", "settle"} /\ req'.route \in {"/stop", "/action"})
       => /\ UNCHANGED <<chats, appendLog, config, received, sseClients>>
          /\ req'.step = "request"
             => \/ pending' = pending
                \/ /\ Len(pending') = Len(pending) + 1
                   /\ pending' = Append(pending, pending'[Len(pending')])
                   /\ pending'[Len(pending')].route = req'.route
          /\ req'.step = "settle"
             => /\ Len(pending') = Len(pending) - 1
                /\ resp'.status \in {200, 500}]_vars

\* two viewers attached and a /stop relayed: each viewer has its init only
C18_Witness ==
    /\ Handled("/stop")
    /\ Len(pending) = 1 /\ pending[1].route = "/stop"
    /\ Cardinality(sseClients) = 2
    /\ \A v \in sseClients : Len(received[v]) = 1
    /\ DOMAIN chats = {}

\* the endpoint a relaying route reads
Destination(route) ==
    IF route = "/action" THEN ACTION_WEBHOOK_URL ELSE MESSAGE_WEBHOOK_URL

\* the request r passes the field validation of its route
FieldsPresent(r) ==
    CASE r.route = "/send" -> Truthy(r.phone) /\ r.message.t # "undefined"
      [] r.route = "/action" -> Truthy(r.phone)
      [] OTHER -> TRUE

\* no relay call was issued to the empty URL
NoRelayToEmpty == \A i \in DOMAIN pending : pending[i].url # <<>>

\* C19: when /send, /action or /stop is handled while its endpoint is the empty
\* string, no relay call is issued and the answer is 400 {ok: false} with the
\* error that names the missing endpoint; a whitespace-only value given to a
\* setter is stored as the empty string, so the same holds after it.
C19_NoRelayWithoutEndpoint ==
    /\ []NoRelayToEmpty
    /\ [][/\ (req'.step = "request" /\ req'.route \in {"/send", "/action", "/stop"}
                /\ resp'.status # 401 /\ Destination(req'.route) = <<>>)
             => /\ pending' = pending
                /\ resp'.status = 400
                /\ resp'.body.ok = FALSE
                /\ FieldsPresent(req')
                   => resp'.body.error =
                          IF req'.route = "/action" THEN NoActionWebhook
                          ELSE NoMessageWebhook
          /\ (req'.step = "request" /\ req'.route = "/settings/webhooks"
                /\ resp'.status = 200)
             => /\ req'.messageWebhookUrl = Str(<<" ">>) => MESSAGE_WEBHOOK_URL' = <<>>
                /\ req'.actionWebhookUrl = Str(<<" ">>) => ACTION_WEBHOOK_URL' = <<>>
          /\ (req'.step = "request" /\ req'.route = "/settings/webhook"
                /\ req'.url = Str(<<" ">>))
             => resp'.status = 200 /\ MESSAGE_WEBHOOK_URL' = <<>>]_vars

\* the endpoints of the environment were replaced by a settings update that
\* left them empty, and a /send was then refused
C19_Witness ==
    /\ Handled("/send")
    /\ resp.status = 400 /\ resp.body.error = NoMessageWebhook
    /\ MESSAGE_WEBHOOK_URL = <<>> /\ ACTION_WEBHOOK_URL = UrlY
    /\ budget = MaxStepsSettings - 1
    /\ pending = <<>>

\* every message /send appended is in the store
EchoesStay ==
    \A j \in DOMAIN appendLog :
        appendLog[j].via = "/send"
        => \E i \in DOMAIN Conversation(chats, appendLog[j].phone) :
               chats[appendLog[j].phone][i] = appendLog[j].msg

\* C20: the echo of a /send is appended and written to the viewers in the step
\* that issues the relay call; the step that answers the caller when the relay
\* has settled, with a rejection or any response, changes neither the store nor
\* what the viewers were sent: the echo stays after a failure.
C20_EchoSurvivesRelayFailure ==
    /\ []EchoesStay
    /\ [][/\ (req'.step = "request" /\ req'.route = "/send"
                /\ Len(pending') = Len(pending) + 1)
             => LET k == normalizePhone(req'.phone)
                    msg == [body |-> String(Coalesce(req'.message, Str(<<>>))),
                            direction |-> "user", ts |-> now]
                IN  /\ chats' = PushedTo(chats, k, msg)
                    /\ received' =
                           Delivered("message",
                                     [phone |-> k, body |-> msg.body,
                                      direction |-> "user", ts |-> msg.ts])
                    /\ pending'[Len(pending')].route = "/send"
          /\ (req'.step = "settle" /\ req'.route = "/send")
             => /\ UNCHANGED <<chats, appendLog, received, sseClients>>
                /\ resp'.status \in {200, 500}
                /\ resp'.status = 500 => resp'.body.ok = FALSE]_vars

\* the relay of a /send was rejected and answered 500: the echo is in the
\* store and the attached viewer has its message event
C20_Witness ==
    /\ req.step = "settle" /\ req.route = "/send"
    /\ resp.status = 500
    /\ Len(appendLog) = 1 /\ appendLog[1].via = "/send"
    /\ chats[appendLog[1].phone] = <<appendLog[1].msg>>
    /\ \E v \in sseClients \ broken :
           /\ Len(received[v]) = 2
           /\ received[v][2].event = "message"
           /\ received[v][2].data.direction = "user"

\* the server can take its next event: leave the request it answered, and
\* answer a GET /settings once it is waiting
KeepsServing ==
    /\ ~Idle => ENABLED Forget
    /\ Idle => ENABLED (\E auth \in AuthOne : GetSettings(auth))

\* C21: when the relay of /send, /action or /stop settles, a 2xx response is
\* answered 200 {ok: true}, any other response 200 {ok: false} with the relay's
\* status, and a rejected call 500 {ok: false, error}; in each case, with the
\* excerpt of the relay's text, the server goes on to take its next event.
C21_RelayOutcomeReported ==
    /\ []KeepsServing
    /\ [][req'.step = "settle"
          => /\ req'.route \in {"/send", "/action", "/stop"}
             /\ req'.relay.kind = "response"
                => resp' = [status |-> 200,
                            body |-> [ok |-> req'.relay.status \in 200..299,
                                      status |-> req'.relay.status,
                                      response |-> req'.relay.text]]
             /\ req'.relay = [kind |-> "response", status |-> 200, text |-> <<"o", "k">>]
                => resp'.body.ok = TRUE
             /\ req'.relay.status = 503
                => resp'.status = 200 /\ resp'.body.ok = FALSE /\ resp'.body.status = 503
             /\ req'.relay.kind = "reject"
                => /\ resp'.status = 500
                   /\ resp'.body.ok = FALSE
                   /\ resp'.body.error = "fetch failed"
             /\ UNCHANGED <<chats, config, sseClients, received>>]_vars

\* the relay of an /action was rejected and the caller was answered 500
C21_Witness ==
    /\ req.step = "settle" /\ req.route = "/action"
    /\ req.relay.kind = "reject"
    /\ resp.status = 500 /\ resp.body.ok = FALSE
    /\ pending = <<>>

\* C22: when an event is broadcast while the channel of an attached viewer
\* fails its writes, every other attached viewer is written the event, the
\* failing viewer is written nothing and stays in the viewer set, and the
\* request that caused the broadcast has its normal effect on the store and its
\* normal response; no handler removes a viewer from the set.
C22_FailedWriteIgnored ==
    [][/\ Len(appendLog') > Len(appendLog)
          => LET e == appendLog'[Len(appendLog')]
             IN  /\ \A v \in sseClients \ broken :
                        received'[v] = Append(received[v], EventOf(e))
                 /\ \A v \in Viewers \ (sseClients \ broken) :
                        received'[v] = received[v]
                 /\ UNCHANGED <<sseClients, broken, config>>
                 /\ chats' = PushedTo(chats, e.phone, e.msg)
                 /\ req'.route = "/webhook/incoming"
                    => resp' = [status |-> 200,
                                body |-> [ok |-> TRUE, phone |-> e.phone]]
                 /\ req'.route = "/send"
                    => /\ Len(pending') = Len(pending) + 1
                       /\ pending'[Len(pending')].body.phone = e.phone
       /\ req' # req => sseClients \subseteq sseClients']_vars

\* /webhook/incoming was handled with two viewers attached, the channel of one
\* failing: the other has the message event, both are still attached
C22_Witness ==
    /\ Handled("/webhook/incoming")
    /\ resp.status = 200
    /\ Cardinality(sseClients) = 2
    /\ \E v \in sseClients \cap broken : Len(received[v]) = 1
    /\ \E w \in sseClients \ broken :
           /\ Len(received[w]) = 2
           /\ received[w][2] = EventOf(appendLog[Len(appendLog)])

\* C23: a step that takes a viewer out of the viewer set takes out that viewer
\* alone and changes nothing else; a viewer that is out of the set is written
\* nothing more; the viewers still attached go on holding exactly the appends
\* made since they attached, none missing and none twice.
C23_CloseRemovesOnlyThatViewer ==
    /\ []C3_EventsAreTheAppendsSinceAttach
    /\ [][/\ sseClients' # sseClients /\ sseClients' \subseteq sseClients
             => /\ \E v \in sseClients : sseClients' = sseClients \ {v}
                /\ UNCHANGED <<DASHBOARD_TOKEN, config, store, received, broken, now,
                               pending, req, resp>>
          /\ \A v \in Viewers \ sseClients : received'[v] = received[v]]_vars

\* of two viewers one closed between two appends: it holds the first message
\* event only, the other holds both
C23_Witness ==
    /\ Len(appendLog) = 2
    /\ \E v \in Viewers \ sseClients : Len(MessageEvents(received[v])) = 1
    /\ \E w \in sseClients \ broken : Len(MessageEvents(received[w])) = 2

\* the payload with the derived endpoints that the request just handled was
\* given: the body of GET /settings, the init event of GET /events
GivenPayload ==
    IF req.route = "/settings" THEN resp.body
    ELSE received[resp.body.stream][1].data

\* a GET /settings or GET /events was just answered
PayloadGiven ==
    /\ req.step = "request" /\ req.route \in {"/settings", "/events"}
    /\ resp.status = 200

\* C24 as the spec states it: with a secret configured, the derived endpoints
\* given to an authorized requester carry its token, sent by header or by query.
C24_EndpointsCarryRequesterToken ==
    (PayloadGiven /\ DASHBOARD_TOKEN # NoSecret)
    => /\ GivenPayload.incomingEndpoint =
              <<"/webhook/incoming", "?token=", DASHBOARD_TOKEN>>
       /\ GivenPayload.outgoingEndpoint =
              <<"/webhook/outgoing", "?token=", DASHBOARD_TOKEN>>

\* what the derived endpoints end with: the token parameter of the request
TokenOfQuery ==
    IF DASHBOARD_TOKEN # NoSecret /\ req.query # NoToken
    THEN <<"?token=", req.query>> ELSE <<>>

\* every settings event carries the two webhook URLs at most
SettingsEventsBare ==
    \A v \in Viewers :
        \A i \in DOMAIN received[v] :
            received[v][i].event = "settings"
            => DOMAIN received[v][i].data
                   \subseteq {"messageWebhookUrl", "actionWebhookUrl"}

\* C24, amended: with a secret configured, the derived endpoints given by
\* GET /settings and by the init event carry the token parameter of the request
\* and nothing when the request has none, as when its token came by header;
\* computing them leaves the configuration unchanged and no settings event
\* carries them.
C24_EndpointsCarryQueryToken ==
    /\ [](PayloadGiven
          => /\ GivenPayload.incomingEndpoint = <<"/webhook/incoming">> \o TokenOfQuery
             /\ GivenPayload.outgoingEndpoint = <<"/webhook/outgoing">> \o TokenOfQuery
             /\ (req.query = DASHBOARD_TOKEN /\ DASHBOARD_TOKEN # NoSecret)
                => GivenPayload.incomingEndpoint =
                       <<"/webhook/incoming", "?token=", DASHBOARD_TOKEN>>
             /\ (req.query = NoToken /\ req.header = DASHBOARD_TOKEN)
                => GivenPayload.incomingEndpoint = <<"/webhook/incoming">>)
    /\ []SettingsEventsBare
    /\ [][(req'.step = "request" /\ req'.route \in {"/settings", "/events"})
          => UNCHANGED config]_vars

\* GET /settings was authorized by the header alone: its endpoints have no token
C24_Witness ==
    /\ PayloadGiven /\ req.route = "/settings"
    /\ DASHBOARD_TOKEN = "tok"
    /\ req.header = "tok" /\ req.query = NoToken
    /\ resp.body.tokenRequired
    /\ resp.body.incomingEndpoint = <<"/webhook/incoming">>
    /\ resp.body.outgoingEndpoint = <<"/webhook/outgoing">>

\* with a relay call in flight the server, once waiting, can handle an
\* ingestion, a /send, a settings update and an attach
ServesWhileRelaying ==
    (pending # <<>> /\ req = NoReq /\ budget > 0)
    => /\ ENABLED WebhookIncoming(<<"tok", NoToken>>, Str(RawPhoneA), Str(<<"h", "i">>))
       /\ ENABLED Send(<<"tok", NoToken>>, Str(RawPhoneA), Str(<<"h", "i">>))
       /\ ENABLED SettingsWebhooks(<<"tok", NoToken>>, Str(UrlY), Str(UrlY))
       /\ ENABLED Events(<<"tok", NoToken>>)

\* C25: a request waiting on its relay call blocks nothing: other requests are
\* handled meanwhile, each append goes to the end of its conversation in the
\* step of its handler, and the settling of a relay call, in whatever order
\* the calls settle, changes no conversation; a handler that issues a relay
\* call has not answered yet, and the step that settles the call answers it
\* and removes that one call, so each such request is answered exactly once.
C25_RelayDoesNotBlock ==
    /\ []ServesWhileRelaying
    /\ []StoreIsLog
    /\ [][/\ req'.step = "settle"
             => /\ UNCHANGED <<chats, appendLog>>
                /\ resp'.status # 0
                /\ \E i \in DOMAIN pending :
                       /\ pending' = RemoveAt(pending, i)
                       /\ pending[i].route = req'.route
          /\ req'.step = "request"
             => IF Len(pending') > Len(pending)
                THEN /\ resp' = NoResp
                     /\ pending' = Append(pending, pending'[Len(pending')])
                ELSE /\ resp'.status # 0
                     /\ pending' = pending
          /\ Len(appendLog') > Len(appendLog)
             => /\ req'.step = "request"
                /\ appendLog' = Append(appendLog, appendLog'[Len(appendLog')])]_vars

\* an ingestion was handled and stored after the echo of a /send whose relay
\* call is still in flight
C25_Witness ==
    /\ Handled("/webhook/incoming")
    /\ resp.status = 200
    /\ Len(pending) = 1 /\ pending[1].route = "/send"
    /\ Len(appendLog) = 2
    /\ appendLog[1].via = "/send" /\ appendLog[2].via = "/webhook/incoming"
    /\ appendLog[1].phone = appendLog[2].phone
    /\ chats[appendLog[1].phone] = <<appendLog[1].msg, appendLog[2].msg>>

\* C26: a relay call goes to the endpoint that was configured when its handler
\* ran, the value the handler checked to be non-empty; a settings update made
\* while the call is in flight leaves the call and its destination as they
\* are, and the calls issued after it go to the new endpoint.
C26_DestinationFixedAtIssue ==
    [][/\ Len(pending') > Len(pending)
          => /\ pending'[Len(pending')].url = Destination(pending'[Len(pending')].route)
             /\ pending'[Len(pending')].url # <<>>
             /\ UNCHANGED config
             /\ \A i \in DOMAIN pending : pending'[i] = pending[i]
       /\ (req'.step = "request"
             /\ req'.route \in {"/settings/webhooks", "/settings/webhook"})
          => pending' = pending
       /\ \A i \in DOMAIN pending' : pending'[i].url # <<>>]_vars

\* a /stop is in flight to "https://x", the endpoint was then set to
\* "https://y", and the /stop handled after that goes to "https://y"
C26_Witness ==
    /\ Handled("/stop")
    /\ Len(pending) = 2
    /\ pending[1].route = "/stop" /\ pending[1].url = UrlX
    /\ pending[2].route = "/stop" /\ pending[2].url = UrlY
    /\ MESSAGE_WEBHOOK_URL = UrlY

\* the handler of route has just issued its relay call, the last one pending
Issued(route) ==
    /\ req.step = "request" /\ req.route = route
    /\ resp = NoResp
    /\ pending # <<>>

\* C27 as the spec states it: the body relayed by /send is the body stored in
\* the operator echo, for every accepted body, and the identifier is the
\* normalized one.
C27_RelayedBodyIsStoredBody ==
    Issued("/send")
    => LET sent == pending[Len(pending)].body
           echo == appendLog[Len(appendLog)]
       IN  /\ sent.phone = echo.phone
           /\ sent.message = Str(echo.msg.body)

\* C27, amended: /send relays the normalized identifier and the body as it was
\* received; the echo holds that body coerced to text, so the two agree when
\* the body is text, while a null body is relayed as null and stored as '' and
\* the number 7 is relayed as 7 and stored as '7'; /action relays the
\* normalized identifier and nothing else.
C27_RelayedBodyAsReceived ==
    /\ Issued("/send")
       => LET sent == pending[Len(pending)].body
              echo == appendLog[Len(appendLog)]
          IN  /\ DOMAIN sent = {"phone", "message"}
              /\ sent.phone = normalizePhone(req.phone)
              /\ sent.phone = echo.phone
              /\ sent.message = req.message
              /\ echo.msg.body = String(Coalesce(req.message, Str(<<>>)))
              /\ req.message.t = "string" => sent.message = Str(echo.msg.body)
              /\ req.message = Null => sent.message = Null /\ echo.msg.body = <<>>
              /\ req.message = Num(7) => sent.message = Num(7) /\ echo.msg.body = <<"7">>
              /\ req.phone = Str(RawPhoneA) => sent.phone = PhoneA
    /\ Issued("/action")
       => /\ DOMAIN pending[Len(pending)].body = {"phone"}
          /\ pending[Len(pending)].body.phone = normalizePhone(req.phone)
          /\ req.phone = Str(RawPhoneA) => pending[Len(pending)].body.phone = PhoneA

\* a /send with a null body was relayed: null went out, '' was stored
C27_Witness ==
    /\ Issued("/send")
    /\ req.phone = Str(RawPhoneA) /\ req.message = Null
    /\ pending[Len(pending)].body = [phone |-> PhoneA, message |-> Null]
    /\ chats[PhoneA][Len(chats[PhoneA])].body = <<>>
    /\ chats[PhoneA][Len(chats[PhoneA])].direction = "user"

\* text: a sequence of characters
IsText(x) == DOMAIN x = 1..Len(x) /\ \A i \in DOMAIN x : x[i] \in STRING

\* the keys and the messages of the store are well formed
StoreWellFormed ==
    \A k \in DOMAIN chats :
        /\ IsText(k)
        /\ \A i \in DOMAIN k : IsDigitOrPlus(k[i])
        /\ normalizePhone(Str(k)) = k
        /\ Len(chats[k]) >= 1
        /\ \A i \in DOMAIN chats[k] :
               /\ IsText(chats[k][i].body)
               /\ chats[k][i].direction \in {"in", "out", "user"}

\* C28: every key of the store holds only digits and '+' and is its own
\* normal form, every conversation has at least one message, every message a
\* text body and a direction among in, out and user; the conversation of the
\* empty key is created only by an accepted request whose identifier is
\* present and has no digit and no '+'.
C28_StoreWellFormed ==
    /\ []StoreWellFormed
    /\ [][(<<>> \in DOMAIN chats' /\ <<>> \notin DOMAIN chats)
          => /\ req'.step = "request"
             /\ resp'.status \in {0, 200}
             /\ Truthy(req'.phone)
             /\ \A i \in DOMAIN String(req'.phone) :
                    ~IsDigitOrPlus(String(req'.phone)[i])]_vars

\* the store holds the empty key, made by an identifier of one space, and
\* another conversation, with messages of two directions
C28_Witness ==
    /\ <<>> \in DOMAIN chats /\ PhoneA \in DOMAIN chats
    /\ req.phone = Str(<<" ">>)
    /\ \E k \in DOMAIN chats : \E i \in DOMAIN chats[k] : chats[k][i].direction = "user"
    /\ \E k \in DOMAIN chats : \E i \in DOMAIN chats[k] : chats[k][i].direction = "out"
====
